---- MODULE Spec2Model ----
(***************************************************************************)
(* Outfit assembly of StyleFinderAI: the knapsack optimizer                *)
(* (src/ai/src/assemble_outfit.py) and the outcome selector, as they are   *)
(* called by outfit_recommendation_handler (src/ai/src/app.py).            *)
(*                                                                         *)
(* Units.  Money is held in integer cents: the code converts every price   *)
(* and the budget with int(round(x * 100)) before any comparison, and the  *)
(* prices and budgets of the model are amounts with two decimals, for      *)
(* which that conversion yields their cent value.  Similarity is held in   *)
(* tenths (SimOne is 1.0), a grid on which the four-decimal rounding of    *)
(* format_results changes nothing.                                         *)
(*                                                                         *)
(* Arrays.  dp_similarity and each row of path_table are arrays indexed by *)
(* cost, pre-filled with -1.0 and -1.  They are held as functions whose    *)
(* domain is the set of cells the code has written; a cell outside the     *)
(* domain holds the fill value.  The code's loops over range(max + 1) skip *)
(* every cell that still holds the fill value, so they are run over the    *)
(* written cells in the same order.                                        *)
(***************************************************************************)
EXTENDS Integers, Sequences, FiniteSets, TLC

\* ------------------------------------------------------------------ bounds
\* Largest number of candidates in one candidate matrix (all categories).
MaxCands == 3
\* Largest finite budget, in cents.
MaxBudget == 4

\* ------------------------------------------------------- program constants
\* Similarity 1.0 in the model's unit (tenths).
SimOne == 10
\* The slack added to huge_budget_cents.
HugeSlack == 1000
\* The fill value of dp_similarity (-1.0) and of path_table (-1).
Unreached == 0 - SimOne
NoIndex == 0 - 1

\* An absent budget (Python None); a finite budget b is <<b>>.
NoBudget == <<>>
Cents(budget) == budget[1]

\* The kinds of candidate the matrices are drawn from: price (cents) and
\* similarity (tenths).  Two kinds tie on quality at different prices, one is
\* free, one has quality zero and one a negative quality.
Kinds ==
    { [price |-> 1, similarity |-> 9],
      [price |-> 2, similarity |-> 9],
      [price |-> 0, similarity |-> 4],
      [price |-> 2, similarity |-> 0],
      [price |-> 1, similarity |-> 0 - 5] }

\* ----------------------------------------------------------------- helpers
Min(S) == CHOOSE x \in S : \A y \in S : x <= y
Max(S) == CHOOSE x \in S : \A y \in S : x >= y

\* Read and write of an array held by its written cells.
Lookup(f, k, fill) == IF k \in DOMAIN f THEN f[k] ELSE fill
Store(f, k, v) == [x \in (DOMAIN f) \cup {k} |-> IF x = k THEN v ELSE f[x]]

RECURSIVE SumSeq(_)
SumSeq(s) == IF s = <<>> THEN 0 ELSE s[1] + SumSeq(Tail(s))

\* ---------------------------------------------------------- format_results
\* The selected items as output dictionaries: id, similarity and price are
\* copied (title, url and image_link carry no value in the model).
format_results(outfit_list) ==
    [n \in 1..Len(outfit_list) |->
        [id |-> outfit_list[n].id,
         similarity |-> outfit_list[n].similarity,
         price |-> outfit_list[n].price]]

\* -------------------------------------------------------- _run_knapsack_dp
\* A variant of IsReachable that takes a total of 0 for the fill value.
IsReachableStrict(v) == v > 0

\* Line 50: the state before this category was reachable.
IsReachable(v) == v >= 0

\* Line 58: the budget constraint of this run.
WithinBudget(new_cost_cents, max_budget_cents) == new_cost_cents <= max_budget_cents

\* Line 62: the new combination is better than the one stored for its cost.
IsBetter(new_total_similarity, stored) == new_total_similarity > stored

\* Lines 53-65: the loop over the items of the current category, for one
\* current_cost_cents.  acc holds new_dp_similarity (dp) and the row
\* path_table[i+1] (path).  Item indices are 1-based.
RECURSIVE TryItems(_, _, _, _, _, _)
TryItems(category_items, item_idx, current_cost_cents, current_dp, max_budget_cents, acc) ==
    IF item_idx > Len(category_items) THEN acc
    ELSE
      LET item == category_items[item_idx]
          new_cost_cents == current_cost_cents + item.price_in_cents
          new_total_similarity == current_dp[current_cost_cents] + item.similarity
          next ==
            IF /\ WithinBudget(new_cost_cents, max_budget_cents)
               /\ IsBetter(new_total_similarity, Lookup(acc.dp, new_cost_cents, Unreached))
            THEN [dp |-> Store(acc.dp, new_cost_cents, new_total_similarity),
                  path |-> Store(acc.path, new_cost_cents, item_idx)]
            ELSE acc
      IN TryItems(category_items, item_idx + 1, current_cost_cents, current_dp,
                  max_budget_cents, next)

\* Lines 48-50: the loop over current_cost_cents, ascending, over the cells
\* of current_dp that are reachable.
RECURSIVE ScanCosts(_, _, _, _, _)
ScanCosts(category_items, costs, current_dp, max_budget_cents, acc) ==
    IF costs = {} THEN acc
    ELSE
      LET current_cost_cents == Min(costs)
      IN ScanCosts(category_items, costs \ {current_cost_cents}, current_dp,
                   max_budget_cents,
                   TryItems(category_items, 1, current_cost_cents, current_dp,
                            max_budget_cents, acc))

\* Lines 44-67: one category after the other; new_dp_similarity starts as a
\* copy of current_dp and its path row starts unwritten.
RECURSIVE RunCategories(_, _, _, _, _)
RunCategories(processed_candidates, i, current_dp, path_table, max_budget_cents) ==
    IF i > Len(processed_candidates)
    THEN [dp |-> current_dp, path_table |-> path_table]
    ELSE
      LET reachable == {c \in DOMAIN current_dp :
                          /\ c <= max_budget_cents
                          /\ IsReachable(current_dp[c])}
          level == ScanCosts(processed_candidates[i], reachable, current_dp,
                             max_budget_cents, [dp |-> current_dp, path |-> <<>>])
      IN RunCategories(processed_candidates, i + 1, level.dp,
                       Append(path_table, level.path), max_budget_cents)

\* A variant of BeatsBest that stops at the first reachable cost from the top.
BeatsBestFirstReachable(similarity, best_similarity) ==
    similarity >= 0 /\ best_similarity < 0

\* Line 75: a cost replaces the best one found so far.
BeatsBest(similarity, best_similarity) == similarity > best_similarity

\* Lines 69-77: the search for the highest similarity, from max_budget_cents
\* down to 0.
RECURSIVE FindBest(_, _, _)
FindBest(current_dp, costs, best) ==
    IF costs = {} THEN best
    ELSE
      LET cost == Max(costs)
      IN FindBest(current_dp, costs \ {cost},
                  IF BeatsBest(current_dp[cost], best.similarity)
                  THEN [similarity |-> current_dp[cost], cost |-> cost]
                  ELSE best)

\* A variant of NotSkipPlaceholder that tests the quality alone.
NotSkipPlaceholderByQuality(selected_item) == selected_item.similarity # 0

\* Line 96: the selected item is not the SKIP placeholder.
NotSkipPlaceholder(selected_item) ==
    selected_item.price_in_cents # 0 \/ selected_item.similarity # 0

\* Lines 87-105: the walk back through the categories; the result is in
\* category order (the code appends backwards and reverses).
RECURSIVE Traceback(_, _, _, _)
Traceback(processed_candidates, path_table, i, current_cost_cents) ==
    IF i = 0 THEN <<>>
    ELSE
      LET item_index == Lookup(path_table[i], current_cost_cents, NoIndex)
      IN IF item_index >= 1
         THEN LET selected_item == processed_candidates[i][item_index]
              IN IF NotSkipPlaceholder(selected_item)
                 THEN Append(Traceback(processed_candidates, path_table, i - 1,
                                       current_cost_cents - selected_item.price_in_cents),
                             selected_item.data)
                 ELSE Traceback(processed_candidates, path_table, i - 1, current_cost_cents)
         ELSE Traceback(processed_candidates, path_table, i - 1, current_cost_cents)

\* Line 83: a non-empty result was found.
FoundResult(best_cost_cents, best_similarity) ==
    best_cost_cents >= 0 /\ best_similarity > 0

\* _run_knapsack_dp: (final_outfit_results, best_similarity, best_cost_cents).
_run_knapsack_dp(processed_candidates, max_budget_cents, num_categories) ==
    LET run == RunCategories(processed_candidates, 1, (0 :> 0), <<>>, max_budget_cents)
        best == FindBest(run.dp, {c \in DOMAIN run.dp : c <= max_budget_cents},
                         [similarity |-> Unreached, cost |-> NoIndex])
        final_outfit_results ==
          IF FoundResult(best.cost, best.similarity)
          THEN Traceback(processed_candidates, run.path_table, num_categories, best.cost)
          ELSE <<>>
    IN [outfit |-> final_outfit_results,
        best_similarity |-> best.similarity,
        best_cost_cents |-> best.cost]

\* ---------------------------------------------------------------- get_outfit
\* Line 119: max_budget_cents = int(round(budget * 100)).
BudgetInCents(budget) == Cents(budget)

\* Line 123: the sum over the categories of the highest price of each.
RECURSIVE max_total_possible_price(_)
max_total_possible_price(all_candidates) ==
    IF all_candidates = <<>> THEN 0
    ELSE Max({all_candidates[1][j].price : j \in 1..Len(all_candidates[1])})
         + max_total_possible_price(Tail(all_candidates))

\* Line 124.
huge_budget_cents(all_candidates, max_budget_cents) ==
    max_total_possible_price(all_candidates) + max_budget_cents + HugeSlack

\* Lines 128-137: every candidate with its price in cents, its similarity
\* and a reference to the original data.
original_processed_candidates(all_candidates) ==
    [i \in 1..Len(all_candidates) |->
        [j \in 1..Len(all_candidates[i]) |->
            [price_in_cents |-> all_candidates[i][j].price,
             similarity |-> all_candidates[i][j].similarity,
             data |-> all_candidates[i][j]]]]

\* Lines 145-149: the SKIP option, a 0-cost, 0-similarity placeholder.
skip_item ==
    [price_in_cents |-> 0, similarity |-> 0,
     data |-> [id |-> 0, price |-> 0, similarity |-> 0]]

\* Lines 142-150: the SKIP option first, then the category's candidates.
feasible_processed_candidates(original) ==
    [i \in 1..Len(original) |-> <<skip_item>> \o original[i]]

\* A variant of FeasibleRun that is handed the huge budget of the full run.
FeasibleRunUnderHugeBudget(all_candidates, max_budget_cents) ==
    _run_knapsack_dp(feasible_processed_candidates(original_processed_candidates(all_candidates)),
                     huge_budget_cents(all_candidates, max_budget_cents),
                     Len(all_candidates))

\* Lines 152-156: the run for the best feasible (partial or full) outfit.
FeasibleRun(all_candidates, max_budget_cents) ==
    _run_knapsack_dp(feasible_processed_candidates(original_processed_candidates(all_candidates)),
                     max_budget_cents, Len(all_candidates))

\* Lines 165-169: the run for the best full outfit, under the huge budget.
FullRun(all_candidates, max_budget_cents) ==
    _run_knapsack_dp(original_processed_candidates(all_candidates),
                     huge_budget_cents(all_candidates, max_budget_cents),
                     Len(all_candidates))

\* What a call raises, if anything.  budget * 100 raises TypeError when the
\* budget is None (line 119); max() of an empty category raises ValueError
\* (line 123).
NoException == "none"

get_outfit_raises(all_candidates, budget) ==
    IF budget = NoBudget THEN "TypeError"
    ELSE IF \E i \in 1..Len(all_candidates) : all_candidates[i] = <<>> THEN "ValueError"
    ELSE NoException

\* A variant of cells_raise that takes every cell for a list.
cells_never_raise(cells) == NoException

\* Line 123 iterates the cells: one that holds None (the placeholder of
\* app.py line 304) or the dict of the error marker raises TypeError.
cells_raise(cells) == IF DOMAIN cells # {} THEN "TypeError" ELSE NoException

\* get_outfit: (feasible_outfit, feasible_remaining_budget, best_full_outfit,
\* best_full_cost), for a call that does not raise.
get_outfit(all_candidates, budget) ==
    LET max_budget_cents == BudgetInCents(budget)
        feasible == FeasibleRun(all_candidates, max_budget_cents)
        full == FullRun(all_candidates, max_budget_cents)
    IN [feasible_outfit |-> format_results(feasible.outfit),
        feasible_remaining_budget |-> Cents(budget) - feasible.best_cost_cents,
        best_full_outfit |-> format_results(full.outfit),
        best_full_cost |-> full.best_cost_cents]

\* ------------------------------------------- select_final_outfit_and_metrics
\* The message of a success result: which of the three texts it is and the
\* values formatted into it, in the order of the text (lines 213, 220-223,
\* 238-241).
FullMessage == [text |-> "Full Outfit Found", values |-> <<>>]

\* A variant of PartialMessage with the two counts exchanged.
PartialMessageCountsExchanged(num_feasible_items, num_required_items, budget, best_full_cost) ==
    [text |-> "Partial Outfit Recommendation",
     values |-> <<num_required_items, num_feasible_items, budget, best_full_cost>>]

PartialMessage(num_feasible_items, num_required_items, budget, best_full_cost) ==
    [text |-> "Partial Outfit Recommendation",
     values |-> <<num_feasible_items, num_required_items, budget, best_full_cost>>]

BudgetIssueMessage(budget, best_full_cost) ==
    [text |-> "Budget Constraint Issue", values |-> <<budget, best_full_cost>>]

\* Lines 232-236 and 250-254: the two error results.
NoCandidatesFound == [error |-> "No Candidates Found", status_code |-> 404]
CriticalAssemblyError == [error |-> "Critical Assembly Error", status_code |-> 500]

\* Lines 257-263: the success result.
SuccessResult(outfit_to_display, display_cost, final_remaining_budget, message) ==
    [error |-> "none",
     outfit |-> outfit_to_display,
     cost |-> display_cost,
     remaining_budget |-> final_remaining_budget,
     message |-> message,
     status_code |-> 200]

\* Lines 212 and 219: the case tests.
IsFullCase(num_feasible_items, num_required_items) ==
    num_feasible_items = num_required_items

IsPartialCase(num_feasible_items, num_required_items) ==
    num_feasible_items > 0 /\ num_feasible_items < num_required_items

\* A variant of FeasibleDisplayCost that reports what is left, not what is spent.
FeasibleDisplayCostIsRemainder(budget, remaining_budget) == remaining_budget

\* Lines 215 and 225: the actual cost of the feasible outfit.
FeasibleDisplayCost(budget, remaining_budget) == Cents(budget) - remaining_budget

\* A variant of SuggestionRemainingBudget with the operands exchanged.
SuggestionOverspend(budget, best_full_cost) == best_full_cost - Cents(budget)

\* Line 245: the remaining budget of the suggestion, budget - best_full_cost.
SuggestionRemainingBudget(budget, best_full_cost) == Cents(budget) - best_full_cost

\* A variant of Finish without the guard of lines 249-254.
FinishUnguarded(outfit_to_display, display_cost, final_remaining_budget, message) ==
    SuccessResult(outfit_to_display, display_cost, final_remaining_budget, message)

\* Lines 249-263: the guard against an empty selection, then the result.
Finish(outfit_to_display, display_cost, final_remaining_budget, message) ==
    IF outfit_to_display = <<>> THEN CriticalAssemblyError
    ELSE SuccessResult(outfit_to_display, display_cost, final_remaining_budget, message)

\* What a call raises: with budget None, budget - remaining_budget (line
\* 215, 225) and the :.2f formats of the budget (lines 221, 239) raise
\* TypeError; only the early return of lines 231-236 comes before them.
select_raises(all_candidates, budget, feasible_outfit, best_full_outfit) ==
    IF budget # NoBudget THEN NoException
    ELSE IF /\ ~IsFullCase(Len(feasible_outfit), Len(all_candidates))
            /\ ~IsPartialCase(Len(feasible_outfit), Len(all_candidates))
            /\ best_full_outfit = <<>>
         THEN NoException
         ELSE "TypeError"

\* select_final_outfit_and_metrics, for a call that does not raise.
select_final_outfit_and_metrics(all_candidates, budget, feasible_outfit, remaining_budget, best_full_outfit, best_full_cost) ==
    LET num_required_items == Len(all_candidates)
        num_feasible_items == Len(feasible_outfit)
    IN IF IsFullCase(num_feasible_items, num_required_items)
       THEN Finish(feasible_outfit, FeasibleDisplayCost(budget, remaining_budget),
                   remaining_budget, FullMessage)
       ELSE IF IsPartialCase(num_feasible_items, num_required_items)
       THEN Finish(feasible_outfit, FeasibleDisplayCost(budget, remaining_budget),
                   remaining_budget,
                   PartialMessage(num_feasible_items, num_required_items, Cents(budget),
                                  best_full_cost))
       ELSE IF best_full_outfit = <<>> THEN NoCandidatesFound
       ELSE Finish(best_full_outfit, best_full_cost,
                   SuggestionRemainingBudget(budget, best_full_cost),
                   BudgetIssueMessage(Cents(budget), best_full_cost))

\* --------------------------------------------------------------- the inputs
\* The candidate lists of one category: 1 to k candidates, in retrieval order.
CandidateLists(k) == UNION {[1..n -> Kinds] : n \in 1..k}

\* The matrices of at most m candidates in all, no category empty; the empty
\* matrix (a plan with no category) is one of them.
RECURSIVE MatrixShapes(_)
MatrixShapes(m) ==
    {<<>>} \cup
    UNION {{<<first>> \o rest : rest \in MatrixShapes(m - Len(first))} :
              first \in CandidateLists(m)}

\* Every candidate gets its own id; category i's j-th candidate is 10 i + j.
WithIds(shape) ==
    [i \in 1..Len(shape) |->
        [j \in 1..Len(shape[i]) |->
            [id |-> 10 * i + j,
             price |-> shape[i][j].price,
             similarity |-> shape[i][j].similarity]]]

Matrices == {WithIds(shape) : shape \in MatrixShapes(MaxCands)}

\* None (no budget given) and the finite budgets up to MaxBudget cents.
Budgets == {NoBudget} \cup {<<b>> : b \in 0..MaxBudget}

\* The scenario matrix: top A (20.00, 0.9), bottom B (30.00, 0.8), shoes C
\* (50.00, 0.6), with the budgets 90.00, 500.00 and 10.00.
ScenarioMatrix ==
    << <<[id |-> 11, price |-> 2000, similarity |-> 9]>>,
       <<[id |-> 21, price |-> 3000, similarity |-> 8]>>,
       <<[id |-> 31, price |-> 5000, similarity |-> 6]>> >>

ScenarioBudgets == {<<9000>>, <<50000>>, <<1000>>}

\* ------------------------------------------------------------------- state
VARIABLES
    all_candidates,     \* the candidate matrix handed to get_outfit
    budget,             \* the budget of the turn: NoBudget or <<cents>>
    pc,                 \* "start", "assembled", "selected" or "raised"
    raised,             \* the exception that ended the assembly, if any
    feasible_outfit,    \* get_outfit's four results
    remaining_budget,
    best_full_outfit,
    best_full_cost,
    final_result        \* final_result_single

\* The state of outfit_recommendation_handler around the assembly.
VARIABLES
    last_outfit,            \* the items of the previous outfit, [] when none
    changed_categories,     \* response.get('changed_categories', [])
    outfits_list,           \* the plans of the turn's options
    option,                 \* i + 1, the option being processed
    parsed_item_list,       \* the plan entries of the option, carry-overs last
    indices_to_search,      \* the matrix indices forwarded to retrieval
    unfilled,               \* the cells of all_candidates that hold no list
    search_results,         \* what retrieval returned for the option
    final_outfits_results,  \* the results of the options that succeeded
    response                \* what the turn returns

assembly_vars == <<all_candidates, budget, pc, raised, feasible_outfit, remaining_budget,
                   best_full_outfit, best_full_cost, final_result>>

handler_vars == <<last_outfit, changed_categories, outfits_list, option, parsed_item_list,
                  indices_to_search, unfilled, search_results, final_outfits_results,
                  response>>

\* The state of send_message (src/app.py) around the handler.
VARIABLES
    cache,                  \* the LRUCache: its entries, least recently used first
    stored,                 \* the messages of each conversation in the database
    requests                \* the send_message request each thread is serving

cache_vars == <<cache, stored, requests>>

\* The conversation the handler is called on, turn after turn.
VARIABLES
    chat_history,           \* the messages of the conversation, in memory
    selected_message_id,    \* the message the user is viewing, <<>> when none
    selected_outfit_index,  \* the option the user is viewing, <<>> when none
    target_outfit_items,    \* the items the refinement starts from
    dialogue,               \* what generate_outfit_plan returned for the turn
    turn,                   \* the number of the turn
    locked_before           \* the categories the previous turn locked

conversation_vars == <<chat_history, selected_message_id, selected_outfit_index,
                       target_outfit_items, dialogue, turn, locked_before>>

session_vars == <<cache_vars, conversation_vars>>

vars == <<assembly_vars, handler_vars, session_vars>>

NoResult == [status_code |-> 0]
NoResponse == [status_code |-> 0]
NoSearch == [error |-> FALSE, lists |-> <<>>]

NoDialogue == [status |-> "none"]

\* No request is looked at: the cache, the database and the threads are
\* left out.
NoCache ==
    /\ cache = <<>>
    /\ stored = <<>>
    /\ requests = <<>>

\* One call of the handler is looked at: the conversation is left out.
NoConversation ==
    /\ chat_history = <<>>
    /\ selected_message_id = <<>>
    /\ selected_outfit_index = <<>>
    /\ target_outfit_items = <<>>
    /\ dialogue = NoDialogue
    /\ turn = 1
    /\ locked_before = {}

NoSession == NoCache /\ NoConversation

\* The handler's variables when the assembly is looked at on its own: no
\* previous outfit, the matrix complete.
NoRefinement ==
    /\ last_outfit = <<>>
    /\ changed_categories = <<>>
    /\ outfits_list = <<>>
    /\ option = 1
    /\ parsed_item_list = <<>>
    /\ indices_to_search = <<>>
    /\ unfilled = <<>>
    /\ search_results = NoSearch
    /\ final_outfits_results = <<>>
    /\ response = NoResponse

Init ==
    /\ NoRefinement
    /\ NoSession
    /\ \/ all_candidates \in Matrices /\ budget \in Budgets
       \/ all_candidates = ScenarioMatrix /\ budget \in ScenarioBudgets
    /\ pc = "start"
    /\ raised = NoException
    /\ feasible_outfit = <<>>
    /\ remaining_budget = 0
    /\ best_full_outfit = <<>>
    /\ best_full_cost = 0
    /\ final_result = NoResult

\* src/ai/src/app.py line 335: get_outfit(all_candidates, budget).
GetOutfit ==
    /\ pc = "start"
    /\ LET exc == IF budget # NoBudget /\ cells_raise(unfilled) # NoException
                  THEN cells_raise(unfilled)
                  ELSE get_outfit_raises(all_candidates, budget)
       IN IF exc # NoException
          THEN /\ pc' = "raised"
               /\ raised' = exc
               /\ UNCHANGED <<feasible_outfit, remaining_budget, best_full_outfit,
                              best_full_cost>>
          ELSE LET r == get_outfit(all_candidates, budget)
               IN /\ pc' = "assembled"
                  /\ feasible_outfit' = r.feasible_outfit
                  /\ remaining_budget' = r.feasible_remaining_budget
                  /\ best_full_outfit' = r.best_full_outfit
                  /\ best_full_cost' = r.best_full_cost
                  /\ UNCHANGED raised
    /\ UNCHANGED <<all_candidates, budget, final_result, handler_vars, session_vars>>

\* src/ai/src/app.py line 337: select_final_outfit_and_metrics(...).
SelectFinal ==
    /\ pc = "assembled"
    /\ LET exc == select_raises(all_candidates, budget, feasible_outfit, best_full_outfit)
       IN IF exc # NoException
          THEN /\ pc' = "raised"
               /\ raised' = exc
               /\ UNCHANGED final_result
          ELSE /\ pc' = "selected"
               /\ final_result' =
                    select_final_outfit_and_metrics(all_candidates, budget, feasible_outfit,
                                                    remaining_budget, best_full_outfit,
                                                    best_full_cost)
               /\ UNCHANGED raised
    /\ UNCHANGED <<all_candidates, budget, feasible_outfit, remaining_budget,
                   best_full_outfit, best_full_cost, handler_vars, session_vars>>

Next == GetOutfit \/ SelectFinal

Spec == Init /\ [][Next]_vars

\* ------------------------------------------------------- category names
\* A category name is the sequence of its characters.
Top == <<"t", "o", "p">>
Bottom == <<"b", "o", "t", "t", "o", "m">>
Shoes == <<"s", "h", "o", "e", "s">>

\* str.lower() on the letters the names are written with.
UpperCase == ("T" :> "t") @@ ("S" :> "s") @@ ("B" :> "b")

lowercase(s) == [n \in 1..Len(s) |-> IF s[n] \in DOMAIN UpperCase THEN UpperCase[s[n]] ELSE s[n]]

\* str.strip(): the blanks at both ends are removed.
RECURSIVE lstrip(_)
lstrip(s) == IF s # <<>> /\ s[1] = " " THEN lstrip(Tail(s)) ELSE s

RECURSIVE rstrip(_)
rstrip(s) == IF s # <<>> /\ s[Len(s)] = " " THEN rstrip(SubSeq(s, 1, Len(s) - 1)) ELSE s

strip(s) == rstrip(lstrip(s))

\* src/ai/src/app.py lines 185-189.
normalize(s) ==
    IF s = <<>> THEN <<>>
    ELSE LET t == strip(lowercase(s))
         IN IF t # <<>> /\ t[Len(t)] = "s" THEN SubSeq(t, 1, Len(t) - 1) ELSE t

\* ------------------------------------------------- refinement controller
\* A field of a stored item is <<>> when the key is absent and <<v>> when it
\* holds v; dict.get(key, default) on such a field.
Get(field, default) == IF field = <<>> THEN default ELSE field[1]

\* A variant of is_changed that compares the names as they are spelled.
is_changed_as_spelled(category, changed) == \E n \in 1..Len(changed) : changed[n] = category

\* Lines 252-255 and 282-285: the category is in changed_categories.
is_changed(category, changed) ==
    \E n \in 1..Len(changed) : normalize(changed[n]) = normalize(category)

\* Line 242, evaluated once per option before the carry-over loop.
new_plan_categories(plan) == {normalize(plan[n].category) : n \in 1..Len(plan)}

\* A variant of carried_over that stops after the first previous item.
carried_over_first_only(prev_items, plan_categories, changed) ==
    IF prev_items = <<>> \/ prev_items[1].main_category = <<>> THEN <<>>
    ELSE IF /\ normalize(prev_items[1].main_category) \notin plan_categories
            /\ \A n \in 1..Len(changed) :
                  normalize(changed[n]) # normalize(prev_items[1].main_category)
    THEN <<[category |-> prev_items[1].main_category, carry_over |-> TRUE]>>
    ELSE <<>>

\* Lines 243-267: the entries appended for the previous items whose
\* category is missing from the plan and not changed, in the order of the
\* previous outfit.
RECURSIVE carried_over(_, _, _)
carried_over(prev_items, plan_categories, changed) ==
    IF prev_items = <<>> THEN <<>>
    ELSE LET prev_cat == prev_items[1].main_category
             rest == carried_over(Tail(prev_items), plan_categories, changed)
         IN IF prev_cat = <<>> THEN rest
            ELSE IF normalize(prev_cat) \notin plan_categories /\ ~is_changed(prev_cat, changed)
            THEN <<[category |-> prev_cat, carry_over |-> TRUE]>> \o rest
            ELSE rest

\* Lines 241-267: the plan after the carry-over.
with_carry_over(plan, prev_items, changed) ==
    plan \o carried_over(prev_items, new_plan_categories(plan), changed)

\* Lines 289-291: the previous items stored under the entry's category.
matching_previous(category, prev_items) ==
    {k \in 1..Len(prev_items) : normalize(prev_items[k].main_category) = normalize(category)}

\* Lines 280-299: the entry is locked.
is_locked(category, prev_items, changed) ==
    /\ prev_items # <<>>
    /\ ~is_changed(category, changed)
    /\ matching_previous(category, prev_items) # {}

\* Lines 294-298: price and similarity defaults, then update(prev_item).
locked_candidate(prev_item) ==
    [id |-> prev_item.id,
     price |-> Get(prev_item.price, 0),
     similarity |-> Get(prev_item.similarity, SimOne),
     main_category |-> prev_item.main_category]

\* Lines 289-299: the first matching previous item is the one locked.
locked_list(category, prev_items) ==
    <<locked_candidate(prev_items[Min(matching_previous(category, prev_items))])>>

\* Lines 274-306: the matrix before retrieval; a cell that is not locked
\* holds the None placeholder.
locked_matrix(plan, prev_items, changed) ==
    [idx \in 1..Len(plan) |->
        IF is_locked(plan[idx].category, prev_items, changed)
        THEN locked_list(plan[idx].category, prev_items)
        ELSE <<>>]

\* A variant of unlocked_from that forwards every entry.
every_index_from(plan, idx, prev_items, changed) == [j \in 1..(Len(plan) - idx + 1) |-> idx + j - 1]

\* Lines 303-306: the indices of the entries that are not locked, ascending.
RECURSIVE unlocked_from(_, _, _, _)
unlocked_from(plan, idx, prev_items, changed) ==
    IF idx > Len(plan) THEN <<>>
    ELSE IF is_locked(plan[idx].category, prev_items, changed)
    THEN unlocked_from(plan, idx + 1, prev_items, changed)
    ELSE <<idx>> \o unlocked_from(plan, idx + 1, prev_items, changed)

\* items_to_search: the entries at indices_to_search.
items_to_search(plan, indices) == [j \in 1..Len(indices) |-> plan[indices[j]]]

\* Line 304: the placeholders of the cells to search.
placeholders(indices) == [idx \in {indices[j] : j \in 1..Len(indices)} |-> "None"]

\* Lines 322-325 for the error marker [{"error": ...}]: its only element,
\* a dict, lands in the cell of the first searched entry; the other
\* searched cells keep their placeholder.
place_error_marker(cells, indices) == [cells EXCEPT ![indices[1]] = "ErrorMarker"]

\* A variant of place_results that puts the j-th list into the j-th cell.
place_results_from_first_cell(matrix, indices, lists) ==
    [idx \in 1..Len(matrix) |->
        IF idx <= Len(lists)
        THEN [n \in 1..Len(lists[idx]) |->
                 [id |-> 10 * idx + n,
                  price |-> lists[idx][n].price,
                  similarity |-> lists[idx][n].similarity]]
        ELSE matrix[idx]]

\* Lines 322-325 for one list per query: the j-th list goes to the cell of
\* the j-th searched entry; its candidates get the ids 10 idx + n.
place_results(matrix, indices, lists) ==
    [idx \in 1..Len(matrix) |->
        IF \E j \in 1..Len(indices) : indices[j] = idx /\ j <= Len(lists)
        THEN LET j == CHOOSE k \in 1..Len(indices) : indices[k] = idx
             IN [n \in 1..Len(lists[j]) |->
                    [id |-> 10 * idx + n,
                     price |-> lists[j][n].price,
                     similarity |-> lists[j][n].similarity]]
        ELSE matrix[idx]]

\* ------------------------------------------------------ inputs of a turn
\* The most options, previous items and plan entries of a turn.
MaxOptions == 2
MaxPrev == 2
MaxPlan == 2

\* The k-th item of the previous outfit: its id is 90 + k and its price
\* 2 cents; main_category and similarity are stored or not.
PrevItemsAt(k) ==
    {[id |-> 90 + k, main_category |-> c, price |-> <<2>>, similarity |-> q] :
        c \in {<<>>, Top, Shoes}, q \in {<<>>, <<5>>}}

RECURSIVE PreviousOutfitsOfLen(_)
PreviousOutfitsOfLen(n) ==
    IF n = 0 THEN {<<>>}
    ELSE {Append(o, item) : o \in PreviousOutfitsOfLen(n - 1), item \in PrevItemsAt(n)}

PreviousOutfits == UNION {PreviousOutfitsOfLen(n) : n \in 0..MaxPrev}

ChangedSets == {<<>>, <<Shoes>>, <<Top>>}

\* What parse_outfit_plan returns for an option: a message only (guardrail,
\* lines 601-602 and 639-640 of query_handler.py) or the entries of its
\* categories.
MessageOnly == [message |-> TRUE, entries |-> <<>>]

PlanEntries ==
    UNION {[1..n -> {[category |-> c, carry_over |-> FALSE] : c \in {Top, Shoes}}] :
              n \in 0..MaxPlan}

Plans == {MessageOnly} \cup {[message |-> FALSE, entries |-> e] : e \in PlanEntries}

\* The budgets of a turn.
TurnBudgets == {NoBudget, <<1>>, <<MaxBudget>>}

\* The candidate lists retrieval returns for a query: never empty (an empty
\* one turns the whole answer into the error marker,
\* outfit_retrieval_logic.py lines 87-109).
RetrievedLists ==
    {<<[price |-> 1, similarity |-> 9]>>, <<[price |-> 3, similarity |-> 4]>>}

\* search_product_candidates_with_vector_db: the error marker, or one list
\* per query.
ErrorMarker == [error |-> TRUE, lists |-> <<>>]

SearchOutcomes(n) ==
    {ErrorMarker} \cup {[error |-> FALSE, lists |-> l] : l \in [1..n -> RetrievedLists]}

\* Lines 195-202: a refinement without an explicit request for options
\* keeps the first option only.
after_safeguard(plans, changed, is_explicit_request) ==
    IF changed # <<>> /\ Len(plans) > 1 /\ ~is_explicit_request
    THEN SubSeq(plans, 1, 1)
    ELSE plans

\* The handler's variables when the loop over the options begins (line 226).
BeforeOptions ==
    /\ option = 1
    /\ pc = "plan"
    /\ all_candidates = <<>>
    /\ parsed_item_list = <<>>
    /\ indices_to_search = <<>>
    /\ unfilled = <<>>
    /\ search_results = NoSearch
    /\ final_outfits_results = <<>>
    /\ response = NoResponse
    /\ raised = NoException
    /\ feasible_outfit = <<>>
    /\ remaining_budget = 0
    /\ best_full_outfit = <<>>
    /\ best_full_cost = 0
    /\ final_result = NoResult

\* The scenario of a refinement: previous outfit top A, bottom B, shoes C,
\* changed set {shoes}, and a plan that asks for shoes only.
ScenarioPreviousOutfit ==
    <<[id |-> 1, main_category |-> Top, price |-> <<2>>, similarity |-> <<>>],
      [id |-> 2, main_category |-> Bottom, price |-> <<2>>, similarity |-> <<>>],
      [id |-> 3, main_category |-> Shoes, price |-> <<2>>, similarity |-> <<>>]>>

ScenarioPlan ==
    [message |-> FALSE, entries |-> <<[category |-> Shoes, carry_over |-> FALSE]>>]

\* Category names as the stored items, the plan and the changed set may
\* spell them: other case, a blank at the end, one more "s".
NameForms ==
    {<<"T", "o", "p", " ">>, <<"t", "o", "p", "s">>, Shoes, <<"s", "h", "o", "e", "s", "s">>}

\* A previous outfit of one item, a plan of at most one entry and a changed
\* set of at most one name, each name in any of the forms.
SpelledPreviousOutfits ==
    {<<[id |-> 91, main_category |-> c, price |-> <<2>>, similarity |-> <<>>]>> :
        c \in NameForms}

SpelledPlans ==
    {[message |-> FALSE, entries |-> e] :
        e \in {<<>>} \cup {<<[category |-> c, carry_over |-> FALSE]>> : c \in NameForms}}

SpelledChangedSets == {<<>>} \cup {<<c>> : c \in NameForms}

\* A turn with one option, for the refinement controller: every previous
\* outfit, changed set and plan, the scenario, and the spelled names.
ControllerInit ==
    /\ \/ /\ last_outfit \in PreviousOutfits
          /\ changed_categories \in ChangedSets
          /\ outfits_list \in {<<plan>> : plan \in Plans}
       \/ /\ last_outfit = ScenarioPreviousOutfit
          /\ changed_categories = <<Shoes>>
          /\ outfits_list = <<ScenarioPlan>>
       \/ /\ last_outfit \in SpelledPreviousOutfits
          /\ changed_categories \in SpelledChangedSets
          /\ outfits_list \in {<<plan>> : plan \in SpelledPlans}
    /\ budget = <<MaxBudget>>
    /\ BeforeOptions
    /\ NoSession

\* A turn of up to MaxOptions options, assembled and answered: the previous
\* outfit holds at most one item and the plans have no repeated category.
TurnPlans ==
    {MessageOnly} \cup
    {[message |-> FALSE,
      entries |-> [n \in 1..Len(cats) |-> [category |-> cats[n], carry_over |-> FALSE]]] :
        cats \in {<<>>, <<Top>>, <<Shoes>>, <<Top, Shoes>>}}

TurnInit ==
    /\ last_outfit \in PreviousOutfitsOfLen(0) \cup PreviousOutfitsOfLen(1)
    /\ changed_categories \in ChangedSets
    /\ budget \in TurnBudgets
    /\ \E plans \in UNION {[1..n -> TurnPlans] : n \in 1..MaxOptions} :
          \E is_explicit_request \in BOOLEAN :
             outfits_list = after_safeguard(plans, changed_categories, is_explicit_request)
    /\ BeforeOptions
    /\ NoSession

\* Lines 226-238 and 341: on to the next option, or to the response.
NextOption ==
    /\ option' = option + 1
    /\ pc' = IF option < Len(outfits_list) THEN "plan" ELSE "respond"

\* Lines 229-306: the option's plan is parsed, carried over and locked.
PlanOption ==
    /\ pc = "plan"
    /\ LET outfit_plan == outfits_list[option]
       IN IF outfit_plan.message
          THEN /\ NextOption
               /\ UNCHANGED <<all_candidates, parsed_item_list, indices_to_search, unfilled,
                              search_results>>
          ELSE LET plan == with_carry_over(outfit_plan.entries, last_outfit, changed_categories)
                   indices == unlocked_from(plan, 1, last_outfit, changed_categories)
               IN /\ parsed_item_list' = plan
                  /\ all_candidates' = locked_matrix(plan, last_outfit, changed_categories)
                  /\ indices_to_search' = indices
                  /\ unfilled' = placeholders(indices)
                  /\ search_results' = NoSearch
                  /\ pc' = "search"
                  /\ UNCHANGED option
    /\ UNCHANGED <<budget, raised, feasible_outfit, remaining_budget, best_full_outfit,
                   best_full_cost, final_result, last_outfit, changed_categories,
                   outfits_list, final_outfits_results, response,
                   session_vars>>

\* Lines 308-325: the batch search for the entries that are not locked.
Retrieve ==
    /\ pc = "search"
    /\ IF indices_to_search = <<>>
       THEN UNCHANGED <<all_candidates, unfilled, search_results>>
       ELSE /\ search_results' \in
                  SearchOutcomes(Len(items_to_search(parsed_item_list, indices_to_search)))
            /\ IF search_results'.error
               THEN /\ unfilled' = place_error_marker(unfilled, indices_to_search)
                    /\ UNCHANGED all_candidates
               ELSE /\ all_candidates' = place_results(all_candidates, indices_to_search,
                                                       search_results'.lists)
                    /\ unfilled' = <<>>
    /\ pc' = "start"
    /\ UNCHANGED <<budget, raised, feasible_outfit, remaining_budget, best_full_outfit,
                   best_full_cost, final_result, last_outfit, changed_categories,
                   outfits_list, option, parsed_item_list, indices_to_search,
                   final_outfits_results, response,
                   session_vars>>

\* Lines 339-344: an error result drops the option, a success is collected.
Collect ==
    /\ pc = "selected"
    /\ final_outfits_results' =
          IF final_result.status_code = 200
          THEN Append(final_outfits_results, final_result)
          ELSE final_outfits_results
    /\ NextOption
    /\ UNCHANGED <<all_candidates, budget, raised, feasible_outfit, remaining_budget,
                   best_full_outfit, best_full_cost, final_result, last_outfit,
                   changed_categories, outfits_list, parsed_item_list, indices_to_search,
                   unfilled, search_results, response,
                   session_vars>>

\* A filter that also drops the outfits that spend the budget exactly.
under_budget_outfits(results) == SelectSeq(results, LAMBDA o : o.remaining_budget > 0)

\* Line 347: the results that are not over budget.
within_budget_outfits(results) == SelectSeq(results, LAMBDA o : o.remaining_budget >= 0)

\* Lines 355-365: the error of a turn without outfit, and the final response.
NoValidOutfits == [status |-> "Error", status_code |-> 500, outfits |-> <<>>]

final_response(results) == [status |-> "COMPLETED", status_code |-> 200, outfits |-> results]

\* Lines 346-368: the over-budget filter and the response of the turn.
Respond ==
    /\ pc = "respond"
    /\ LET within == within_budget_outfits(final_outfits_results)
           kept == IF within # <<>> THEN within ELSE final_outfits_results
       IN /\ final_outfits_results' = kept
          /\ response' = IF kept = <<>> THEN NoValidOutfits ELSE final_response(kept)
    /\ pc' = "done"
    /\ UNCHANGED <<all_candidates, budget, raised, feasible_outfit, remaining_budget,
                   best_full_outfit, best_full_cost, final_result, last_outfit,
                   changed_categories, outfits_list, option, parsed_item_list,
                   indices_to_search, unfilled, search_results,
                   session_vars>>

\* src/app.py lines 546-551: an exception of the handler ends the request
\* with {"error": str(e)}, 500.
RequestFailed == [status |-> "exception", status_code |-> 500, outfits |-> <<>>]

SendMessageFails ==
    /\ pc = "raised"
    /\ response' = RequestFailed
    /\ pc' = "failed"
    /\ UNCHANGED <<all_candidates, budget, raised, feasible_outfit, remaining_budget,
                   best_full_outfit, best_full_cost, final_result, last_outfit,
                   changed_categories, outfits_list, option, parsed_item_list,
                   indices_to_search, unfilled, search_results, final_outfits_results,
                   session_vars>>

TurnNext ==
    PlanOption \/ Retrieve \/ GetOutfit \/ SelectFinal \/ Collect \/ Respond \/ SendMessageFails

TurnSpec == TurnInit /\ [][TurnNext]_vars

\* The refinement controller alone: the plan, the locks and the retrieval.
ControllerNext == PlanOption \/ Retrieve

ControllerSpec == ControllerInit /\ [][ControllerNext]_vars

\* ------------------------------------------- send_message and the cache
\* src/app.py line 21: cache = LRUCache(maxsize=100). The cache of the model
\* holds fewer entries, so that requests on a few conversations fill it.
maxsize == 1

\* The most prompts of a conversation.
MaxPrompts == 3

\* The threads of the server (app.run, line 704) and the conversations of
\* the authenticated user.
Threads == {"a", "b"}
Conversations == {1, 2}

\* A message of a conversation; conv names the conversation it was written
\* in.
Message(role, conv) == [role |-> role, conv |-> conv]

\* The keys of the cache.
CachedKeys(entries) == {entries[n].key : n \in 1..Len(entries)}

\* LRUCache.pop(key, None) and the removal of an entry.
cache_pop(entries, key) == SelectSeq(entries, LAMBDA e : e.key # key)

\* LRUCache.__getitem__: the value stored under key, which becomes the most
\* recently used entry.
cache_value(entries, key) ==
    (CHOOSE e \in {entries[n] : n \in 1..Len(entries)} : e.key = key).value

cache_touch(entries, key) ==
    Append(cache_pop(entries, key), [key |-> key, value |-> cache_value(entries, key)])

\* LRUCache.__setitem__ for a new key: least recently used entries are
\* evicted until there is room, then the entry is added as the most
\* recently used one.
RECURSIVE evict_for_one(_)
evict_for_one(entries) ==
    IF Len(entries) + 1 > maxsize THEN evict_for_one(Tail(entries)) ELSE entries

cache_set(entries, key, value) ==
    IF key \in CachedKeys(entries)
    THEN Append(cache_pop(entries, key), [key |-> key, value |-> value])
    ELSE Append(evict_for_one(entries), [key |-> key, value |-> value])

\* The cached tuple holds the very list the request works on: what the
\* request appends is seen through the cache while the entry is there.
cache_mutated(entries, key, value) ==
    [n \in 1..Len(entries) |->
        IF entries[n].key = key THEN [key |-> key, value |-> value] ELSE entries[n]]

\* A thread that serves no request; status_code and exception are those of
\* the request it served last.
Idle(status_code, exception) ==
    [at |-> "idle", conv_id |-> 0, chat_history |-> <<>>,
     status_code |-> status_code, exception |-> exception]

\* The conversations a request is in flight on.
InFlight == {requests[t].conv_id : t \in {u \in Threads : requests[u].at # "idle"}}

\* The prompts stored for a conversation.
Prompts(c) == Len(SelectSeq(stored[c], LAMBDA m : m.role = "user"))

\* The locals of a call of the handler that has not begun.
FreshLocals ==
    /\ NoRefinement
    /\ all_candidates = <<>>
    /\ budget = NoBudget
    /\ raised = NoException
    /\ feasible_outfit = <<>>
    /\ remaining_budget = 0
    /\ best_full_outfit = <<>>
    /\ best_full_cost = 0
    /\ final_result = NoResult

\* No turn is looked at: the handler's variables are left out.
NoTurn == FreshLocals /\ NoConversation /\ pc = "requests"

\* Every conversation exists, with its first exchange in the database; the
\* cache is empty (a new conversation's entry is set at line 485 and popped
\* at line 543).
CacheInit ==
    /\ NoTurn
    /\ cache = <<>>
    /\ stored = [c \in Conversations |-> <<Message("user", c), Message("model", c)>>]
    /\ requests = [t \in Threads |-> Idle(0, NoException)]

\* Lines 487-490: a request on an existing conversation that no other
\* request is in flight on; add_message_to_conversation stores the prompt,
\* or fails and the request returns 403.
BeginRequest(t, c) ==
    /\ requests[t].at = "idle"
    /\ c \notin InFlight
    /\ Prompts(c) < MaxPrompts
    /\ \/ /\ stored' = [stored EXCEPT ![c] = Append(@, Message("user", c))]
          /\ requests' = [requests EXCEPT ![t] =
                [at |-> "check", conv_id |-> c, chat_history |-> <<>>,
                 status_code |-> 0, exception |-> NoException]]
       \/ /\ requests' = [requests EXCEPT ![t] = Idle(403, NoException)]
          /\ UNCHANGED stored
    /\ UNCHANGED <<cache, assembly_vars, handler_vars, conversation_vars>>

\* src/app.py lines 576-616: the stored messages but the last one, which is
\* the prompt of this request.
load_messages(c) == SubSeq(stored[c], 1, Len(stored[c]) - 1)

\* Lines 493 and 496: conv_id in cache; when it is not, the history is
\* loaded from the database.
CheckCache(t) ==
    /\ requests[t].at = "check"
    /\ LET request == requests[t]
       IN requests' = [requests EXCEPT ![t] =
             IF request.conv_id \in CachedKeys(cache)
             THEN [request EXCEPT !.at = "cached"]
             ELSE [request EXCEPT !.at = "loaded",
                                  !.chat_history = load_messages(request.conv_id)]]
    /\ UNCHANGED <<cache, stored, assembly_vars, handler_vars, conversation_vars>>

\* Line 494: cache[conv_id]; a key that is no longer there raises KeyError,
\* which lines 546-551 answer with 500.
ReadCache(t) ==
    /\ requests[t].at = "cached"
    /\ IF requests[t].conv_id \in CachedKeys(cache)
       THEN /\ requests' = [requests EXCEPT ![t] =
                  [requests[t] EXCEPT !.at = "handler",
                      !.chat_history = cache_value(cache, requests[t].conv_id)]]
            /\ cache' = cache_touch(cache, requests[t].conv_id)
       ELSE /\ requests' = [requests EXCEPT ![t] = Idle(500, "KeyError")]
            /\ UNCHANGED cache
    /\ UNCHANGED <<stored, assembly_vars, handler_vars, conversation_vars>>

\* Line 497: cache[conv_id] = (chat_history, past_images).
FillCache(t) ==
    /\ requests[t].at = "loaded"
    /\ cache' = cache_set(cache, requests[t].conv_id, requests[t].chat_history)
    /\ requests' = [requests EXCEPT ![t] = [@ EXCEPT !.at = "handler"]]
    /\ UNCHANGED <<stored, assembly_vars, handler_vars, conversation_vars>>

\* Line 499: outfit_recommendation_handler. generate_outfit_plan appends the
\* prompt and the model's text to chat_history (query_handler.py lines 468,
\* 505 and 523); the handler then returns a result or raises (get_outfit's
\* TypeError), which lines 546-551 answer with 500.
CallHandler(t) ==
    /\ requests[t].at = "handler"
    /\ LET c == requests[t].conv_id
           history == requests[t].chat_history
                         \o <<Message("user", c), Message("model", c)>>
       IN /\ cache' = cache_mutated(cache, c, history)
          /\ \/ requests' = [requests EXCEPT ![t] =
                   [@ EXCEPT !.at = "answer", !.chat_history = history]]
             \/ requests' = [requests EXCEPT ![t] = Idle(500, "TypeError")]
    /\ UNCHANGED <<stored, assembly_vars, handler_vars, conversation_vars>>

\* Lines 501-545: the answer is stored, the history is extended by the
\* prompt and the answer, and the cache entry is popped.
Answer(t) ==
    /\ requests[t].at = "answer"
    /\ LET c == requests[t].conv_id
       IN /\ stored' = [stored EXCEPT ![c] = Append(@, Message("model", c))]
          /\ cache' = cache_pop(cache, c)
    /\ requests' = [requests EXCEPT ![t] = Idle(200, NoException)]
    /\ UNCHANGED <<assembly_vars, handler_vars, conversation_vars>>

CacheNext ==
    \E t \in Threads :
        \/ \E c \in Conversations : BeginRequest(t, c)
        \/ CheckCache(t)
        \/ ReadCache(t)
        \/ FillCache(t)
        \/ CallHandler(t)
        \/ Answer(t)

CacheSpec == CacheInit /\ [][CacheNext]_vars

\* ------------------------------------------ the turns of a conversation
\* The turns of a conversation.
MaxTurns == 2

\* A message id is an integer in the stored messages and a string in the
\* request; str() gives the text of either.
IntId(text) == [kind |-> "int", text |-> text]
StrId(text) == [kind |-> "str", text |-> text]

str(id) == IF id = <<>> THEN "None" ELSE id[1].text

\* The messages of chat_history: generate_outfit_plan's entries carry a
\* role and a text only (query_handler.py lines 468, 505 and 523);
\* msg.get('outfits', []) is [] for them.
UserMessage == [role |-> "user", message_id |-> <<>>, outfits |-> <<>>]
ModelText == [role |-> "model", message_id |-> <<>>, outfits |-> <<>>]

\* src/app.py lines 526-528: ai_msg.
ai_msg(message_id, outfits) == [role |-> "model", message_id |-> message_id, outfits |-> outfits]

\* A model message that shows two options, as the history of the
\* conversation holds it when the turns begin.
ShownItem(id, category) ==
    [id |-> id, main_category |-> category, price |-> <<2>>, similarity |-> <<>>]

Shown ==
    ai_msg(<<IntId("1")>>,
           <<[outfit |-> <<ShownItem(91, Top), ShownItem(92, Shoes)>>],
             [outfit |-> <<ShownItem(93, Top)>>]>>)

Histories == {<<>>, <<UserMessage, Shown>>}

\* What the request selects.
SelectedIds == {<<>>, <<StrId("1")>>}
SelectedIndexes == {<<>>, <<0>>, <<1>>}

\* src/ai/src/app.py lines 106-118: the position of the target message in
\* the history, 0 when there is none. With a selected id it is the last
\* model message of that id, otherwise the last model message.
target_outfit_message(history, selected_id) ==
    LET found == {n \in 1..Len(history) :
                     /\ history[n].role = "model"
                     /\ selected_id # <<>> => str(history[n].message_id) = str(selected_id)}
    IN IF found = {} THEN 0 ELSE Max(found)

\* Lines 120-126: the items of the option at target_index of the target
\* message.
target_items(history, selected_id, selected_index) ==
    LET n == target_outfit_message(history, selected_id)
        target_index == Get(selected_index, 0)
    IN IF n = 0 THEN <<>>
       ELSE IF history[n].outfits # <<>> /\ Len(history[n].outfits) > target_index
       THEN history[n].outfits[target_index + 1].outfit
       ELSE <<>>

\* What generate_outfit_plan returns (query_handler.py lines 506-511 and
\* 526-535), with the keys it sets.
AwaitingInput == [status |-> "AWAITING_INPUT"]

ReadyToGenerate(plan, modifications) ==
    [status |-> "READY_TO_GENERATE",
     outfits |-> <<plan>>,
     budget |-> <<MaxBudget>>,
     refinement_type |-> IF modifications = <<>> THEN "NEW_OUTFIT" ELSE "REFINE_CURRENT",
     modifications |-> modifications]

\* The modifications of the plan (query_handler.py lines 85-98).
Modifications ==
    {<<>>} \cup {<<[action |-> "REPLACE", category |-> c]>> : c \in {Top, Shoes}}

DialoguePlans ==
    {[message |-> FALSE, entries |-> <<[category |-> c, carry_over |-> FALSE]>>] :
        c \in {Top, Shoes}}

DialogueOutcomes ==
    {AwaitingInput} \cup
    {ReadyToGenerate(plan, modifications) : plan \in DialoguePlans, modifications \in Modifications}

\* dict.get(key, default).
get(dict, key, default) == IF key \in DOMAIN dict THEN dict[key] ELSE default

\* A presented item as the history keeps it: format_results has copied id,
\* similarity and price (assemble_outfit.py lines 5-18).
as_stored(item) ==
    [id |-> item.id, main_category |-> <<>>, price |-> <<item.price>>,
     similarity |-> <<item.similarity>>]

shown_outfits(results) ==
    [n \in 1..Len(results) |->
        [outfit |-> [k \in 1..Len(results[n].outfit) |-> as_stored(results[n].outfit[k])]]]

\* The id the database gives the answer of a turn.
new_ai_response_id(n) == IntId(<<"11", "12", "13", "14">>[n])

\* The normalized categories of the entries that are locked.
locked_categories(plan, indices) ==
    {normalize(plan[idx].category) :
        idx \in {i \in 1..Len(plan) : \A j \in 1..Len(indices) : indices[j] # i}}

ConversationInit ==
    /\ FreshLocals
    /\ NoCache
    /\ chat_history \in Histories
    /\ selected_message_id = <<>>
    /\ selected_outfit_index = <<>>
    /\ target_outfit_items = <<>>
    /\ dialogue = NoDialogue
    /\ turn = 1
    /\ locked_before = {}
    /\ pc = "target"

\* src/ai/src/app.py lines 75-131: a call of the handler begins and finds
\* the items to refine.
SelectTarget ==
    /\ pc = "target"
    /\ \E id \in SelectedIds : \E index \in SelectedIndexes :
          /\ selected_message_id' = id
          /\ selected_outfit_index' = index
          /\ target_outfit_items' = target_items(chat_history, id, index)
    /\ pc' = "dialogue"
    /\ dialogue' = NoDialogue
    /\ last_outfit' = <<>>
    /\ changed_categories' = <<>>
    /\ outfits_list' = <<>>
    /\ option' = 1
    /\ parsed_item_list' = <<>>
    /\ indices_to_search' = <<>>
    /\ unfilled' = <<>>
    /\ search_results' = NoSearch
    /\ final_outfits_results' = <<>>
    /\ response' = NoResponse
    /\ all_candidates' = <<>>
    /\ budget' = NoBudget
    /\ raised' = NoException
    /\ feasible_outfit' = <<>>
    /\ remaining_budget' = 0
    /\ best_full_outfit' = <<>>
    /\ best_full_cost' = 0
    /\ final_result' = NoResult
    /\ UNCHANGED <<chat_history, turn, locked_before, cache_vars>>

\* Line 135 and query_handler.py lines 466-535: the prompt and the model's
\* text are appended to the history, and the dialogue state is returned.
GenerateOutfitPlan ==
    /\ pc = "dialogue"
    /\ dialogue' \in DialogueOutcomes
    /\ chat_history' = chat_history \o <<UserMessage, ModelText>>
    /\ pc' = IF dialogue'.status = "AWAITING_INPUT" THEN "await" ELSE "read"
    /\ UNCHANGED <<all_candidates, budget, raised, feasible_outfit, remaining_budget,
                   best_full_outfit, best_full_cost, final_result, handler_vars,
                   selected_message_id, selected_outfit_index, target_outfit_items,
                   turn, locked_before, cache_vars>>

\* The next turn of the conversation, if there is one.
NextTurn ==
    IF turn < MaxTurns
    THEN turn' = turn + 1 /\ pc' = "target"
    ELSE turn' = turn /\ pc' = "closed"

\* Lines 146-156 and src/app.py lines 505-529: the handler returns the
\* prompt to the user, and send_message appends the prompt and an answer
\* without outfits.
ReturnPrompt ==
    /\ pc = "await"
    /\ chat_history' = chat_history \o <<UserMessage, ai_msg(<<>>, <<>>)>>
    /\ locked_before' = {}
    /\ NextTurn
    /\ UNCHANGED <<all_candidates, budget, raised, feasible_outfit, remaining_budget,
                   best_full_outfit, best_full_cost, final_result, handler_vars,
                   selected_message_id, selected_outfit_index, target_outfit_items,
                   dialogue, cache_vars>>

\* Lines 161-224: the plans, the budget, the changed set and the previous
\* outfit of the turn.
ReadPlan ==
    /\ pc = "read"
    /\ changed_categories' = get(dialogue, "changed_categories", <<>>)
    /\ \E is_explicit_request \in BOOLEAN :
          outfits_list' = after_safeguard(get(dialogue, "outfits", <<>>),
                                          changed_categories', is_explicit_request)
    /\ budget' = get(dialogue, "max_budget", get(dialogue, "budget", NoBudget))
    /\ last_outfit' = IF target_outfit_items # <<>>
                      THEN target_outfit_items
                      ELSE get(dialogue, "previous_outfit_items", <<>>)
    /\ pc' = "plan"
    /\ UNCHANGED <<all_candidates, raised, feasible_outfit, remaining_budget,
                   best_full_outfit, best_full_cost, final_result, option,
                   parsed_item_list, indices_to_search, unfilled, search_results,
                   final_outfits_results, response, session_vars>>

\* src/app.py lines 501-531: the answer of the turn is stored and appended
\* to the history with the outfits it shows.
Deliver ==
    /\ pc = "done"
    /\ chat_history' = chat_history \o
          <<UserMessage,
            ai_msg(IF response.status = "COMPLETED"
                   THEN <<new_ai_response_id(turn)>> ELSE <<>>,
                   shown_outfits(response.outfits))>>
    /\ locked_before' = locked_categories(parsed_item_list, indices_to_search)
    /\ NextTurn
    /\ UNCHANGED <<all_candidates, budget, raised, feasible_outfit, remaining_budget,
                   best_full_outfit, best_full_cost, final_result, handler_vars,
                   selected_message_id, selected_outfit_index, target_outfit_items,
                   dialogue, cache_vars>>

\* src/app.py lines 546-551: after an exception nothing more is appended.
GiveUp ==
    /\ pc = "failed"
    /\ locked_before' = locked_categories(parsed_item_list, indices_to_search)
    /\ NextTurn
    /\ UNCHANGED <<all_candidates, budget, raised, feasible_outfit, remaining_budget,
                   best_full_outfit, best_full_cost, final_result, handler_vars,
                   chat_history, selected_message_id, selected_outfit_index,
                   target_outfit_items, dialogue, cache_vars>>

ConversationNext ==
    \/ SelectTarget \/ GenerateOutfitPlan \/ ReturnPrompt \/ ReadPlan
    \/ PlanOption \/ Retrieve \/ GetOutfit \/ SelectFinal \/ Collect \/ Respond
    \/ SendMessageFails \/ Deliver \/ GiveUp

ConversationSpec == ConversationInit /\ [][ConversationNext]_vars

\* ------------------------------------------------- vocabulary of the claims
Assembled == pc \in {"assembled", "selected"}

NumCategories == Len(all_candidates)

AllCategoriesNonEmpty == \A i \in 1..Len(all_candidates) : all_candidates[i] # <<>>

\* Total price (cents) and total quality of an outfit.
TotalCost(outfit) == SumSeq([n \in 1..Len(outfit) |-> outfit[n].price])
TotalQuality(outfit) == SumSeq([n \in 1..Len(outfit) |-> outfit[n].similarity])

\* The selections of at most one candidate per category: s[i] = 0 skips
\* category i, s[i] = j takes its j-th candidate.
Selections(matrix) ==
    {s \in [1..Len(matrix) -> 0..MaxCands] : \A i \in 1..Len(matrix) : s[i] <= Len(matrix[i])}

SelectionCost(matrix, s) ==
    SumSeq([i \in 1..Len(matrix) |-> IF s[i] = 0 THEN 0 ELSE matrix[i][s[i]].price])

SelectionQuality(matrix, s) ==
    SumSeq([i \in 1..Len(matrix) |-> IF s[i] = 0 THEN 0 ELSE matrix[i][s[i]].similarity])

\* The highest total quality of a selection that costs at most limit.
BestQualityWithin(matrix, limit) ==
    Max({SelectionQuality(matrix, s) :
            s \in {t \in Selections(matrix) : SelectionCost(matrix, t) <= limit}})

\* The ids of the outfit's items, and of the candidates of category i.
OutfitIds(outfit) == {outfit[n].id : n \in 1..Len(outfit)}
CategoryIds(i) == {all_candidates[i][j].id : j \in 1..Len(all_candidates[i])}

\* The finite budgets of the model, in cents.
FiniteBudgets == {b \in Budgets \cup ScenarioBudgets : b # NoBudget}

\* -------------------------------------------------------------------- C1
\* C1: for every matrix with no empty category and every finite budget B,
\* the items of the feasible outfit returned by get_outfit cost, in cents,
\* at most B in all.
C1_FeasibleCostWithinBudget ==
    (Assembled /\ AllCategoriesNonEmpty)
        => TotalCost(feasible_outfit) <= Cents(budget)

\* A budget that binds: the feasible outfit spends it all and leaves a
\* category out.
C1_Witness ==
    /\ pc = "assembled"
    /\ Cents(budget) > 0
    /\ feasible_outfit # <<>>
    /\ TotalCost(feasible_outfit) = Cents(budget)
    /\ Len(feasible_outfit) < NumCategories
    /\ Len(best_full_outfit) = NumCategories
    /\ TotalCost(best_full_outfit) > Cents(budget)

\* -------------------------------------------------------------------- C2
\* C2: the total quality of the feasible outfit equals the highest total
\* quality of any selection of at most one candidate per category whose
\* total cost is at most the budget.
C2_FeasibleQualityIsMaximal ==
    Assembled
        => TotalQuality(feasible_outfit) = BestQualityWithin(all_candidates, Cents(budget))

\* The optimum leaves a category out although that category has a candidate
\* the budget could pay for.
C2_Witness ==
    /\ pc = "assembled"
    /\ feasible_outfit # <<>>
    /\ \E i \in 1..NumCategories :
          /\ OutfitIds(feasible_outfit) \cap CategoryIds(i) = {}
          /\ \E j \in 1..Len(all_candidates[i]) :
                /\ all_candidates[i][j].price <= Cents(budget)
                /\ all_candidates[i][j].similarity > 0

\* -------------------------------------------------------------------- C3
\* C3: for every matrix with a candidate in every category, the full outfit
\* holds exactly one candidate of every category, whatever the qualities.
C3_FullOutfitCoversEveryCategory ==
    (Assembled /\ AllCategoriesNonEmpty)
        => /\ Len(best_full_outfit) = NumCategories
           /\ \A i \in 1..NumCategories : best_full_outfit[i].id \in CategoryIds(i)

\* -------------------------------------------------------------------- C4
\* C4: with no budget and a candidate in every category, assembling
\* succeeds and the feasible outfit is the full outfit, item for item.
C4_UnlimitedFeasibleIsFull ==
    (budget = NoBudget /\ AllCategoriesNonEmpty /\ NumCategories >= 1 /\ pc # "start")
        => /\ pc # "raised"
           /\ Len(best_full_outfit) = NumCategories
           /\ feasible_outfit = best_full_outfit

\* -------------------------------------------------------------------- C5
\* C5: with no budget, the outcome selector presents the full outfit as a
\* success and reports the remaining budget as absent.
C5_UnlimitedPresentsFull ==
    (budget = NoBudget /\ NumCategories >= 1 /\ pc \in {"selected", "raised"})
        => /\ pc = "selected"
           /\ final_result.status_code = 200
           /\ final_result.outfit = best_full_outfit
           /\ final_result.remaining_budget = NoBudget

\* -------------------------------------------------------------------- C6
\* C6: for a fixed matrix and finite budgets B1 <= B2, the total quality of
\* the feasible outfit under B2 is at least that under B1.
C6_QualityMonotoneInBudget ==
    pc = "assembled"
        => \A lower \in FiniteBudgets :
              Cents(lower) <= Cents(budget)
                 => TotalQuality(get_outfit(all_candidates, lower).feasible_outfit)
                       <= TotalQuality(feasible_outfit)

\* A smaller budget that buys a non-empty outfit of strictly lower quality.
C6_Witness ==
    /\ pc = "assembled"
    /\ \E lower \in FiniteBudgets :
          /\ Cents(lower) < Cents(budget)
          /\ get_outfit(all_candidates, lower).feasible_outfit # <<>>
          /\ TotalQuality(get_outfit(all_candidates, lower).feasible_outfit)
                < TotalQuality(feasible_outfit)

\* -------------------------------------------------------------------- C7
\* C7: whenever the feasible outfit has an item in every one of the N >= 1
\* categories, the selector returns a success that presents the feasible
\* outfit, with its cost and with remaining budget = budget - cost >= 0;
\* and whenever the budget is at least the full outfit's cost, the feasible
\* outfit is the full outfit.
C7_FullCoverage ==
    /\ (pc = "selected" /\ NumCategories >= 1 /\ Len(feasible_outfit) = NumCategories)
          => /\ final_result.status_code = 200
             /\ final_result.outfit = feasible_outfit
             /\ final_result.cost = TotalCost(feasible_outfit)
             /\ final_result.remaining_budget = Cents(budget) - TotalCost(feasible_outfit)
             /\ final_result.remaining_budget >= 0
             /\ final_result.message = FullMessage
    /\ (Assembled /\ Cents(budget) >= best_full_cost)
          => feasible_outfit = best_full_outfit

\* Full coverage of several categories with money left over.
C7_Witness ==
    /\ pc = "selected"
    /\ NumCategories >= 2
    /\ Len(feasible_outfit) = NumCategories
    /\ final_result.status_code = 200
    /\ final_result.cost > 0
    /\ final_result.remaining_budget > 0

\* -------------------------------------------------------------------- C8
\* The state of the scenario: top A, bottom B, shoes C, budget 90.00.
PartialScenario == all_candidates = ScenarioMatrix /\ budget = <<9000>>

PartialCoverage ==
    /\ pc = "selected"
    /\ Len(feasible_outfit) >= 1
    /\ Len(feasible_outfit) < NumCategories

\* What the claim says of every partial result but its message.
PartialResultFields ==
    /\ final_result.status_code = 200
    /\ final_result.outfit = feasible_outfit
    /\ final_result.cost = TotalCost(feasible_outfit)
    /\ final_result.remaining_budget = Cents(budget) - TotalCost(feasible_outfit)
    /\ final_result.message.text = "Partial Outfit Recommendation"

PartialScenarioFields ==
    /\ OutfitIds(final_result.outfit) = {11, 21}
    /\ final_result.cost = 5000
    /\ final_result.remaining_budget = 4000

\* C8 as stated: in the partial case the selector presents the feasible
\* outfit with remaining budget = budget - cost, and its message states k,
\* N, the remaining budget and the cost of the full outfit.
C8_PartialMessageStatesRemaining ==
    PartialCoverage
        => /\ PartialResultFields
           /\ final_result.message.values =
                 <<Len(feasible_outfit), NumCategories, final_result.remaining_budget,
                   best_full_cost>>

\* C8 as amended: the message states k, N, the budget itself and the cost
\* of the full outfit; the remaining budget is the result's remaining_budget
\* field.  In the scenario: outfit {A, B}, cost 50.00, remaining budget
\* 40.00, 2 of 3, budget 90.00, full cost 100.00.
C8_PartialCoverage ==
    /\ PartialCoverage
          => /\ PartialResultFields
             /\ final_result.message.values =
                   <<Len(feasible_outfit), NumCategories, Cents(budget), best_full_cost>>
    /\ (pc = "selected" /\ PartialScenario)
          => /\ PartialCoverage
             /\ PartialScenarioFields
             /\ final_result.message.values = <<2, 3, 9000, 10000>>

\* The scenario's result.
C8_Witness ==
    /\ PartialCoverage
    /\ PartialScenario
    /\ final_result.status_code = 200

\* -------------------------------------------------------------------- C9
\* C9: whenever the feasible outfit is empty and the full outfit is not, the
\* selector returns a success that presents the full outfit, with cost =
\* full cost and remaining budget = budget - full cost, which is strictly
\* negative.
C9_ZeroCoverageFallsBackToFull ==
    (pc = "selected" /\ feasible_outfit = <<>> /\ best_full_outfit # <<>>)
        => /\ final_result.status_code = 200
           /\ final_result.outfit = best_full_outfit
           /\ final_result.cost = TotalCost(best_full_outfit)
           /\ final_result.cost = best_full_cost
           /\ final_result.remaining_budget = Cents(budget) - TotalCost(best_full_outfit)
           /\ final_result.remaining_budget < 0
           /\ final_result.message.text = "Budget Constraint Issue"

\* A positive budget below the price of every candidate.
C9_Witness ==
    /\ pc = "selected"
    /\ Cents(budget) > 0
    /\ feasible_outfit = <<>>
    /\ Len(best_full_outfit) >= 2
    /\ final_result.status_code = 200
    /\ final_result.outfit = best_full_outfit
    /\ final_result.remaining_budget < 0

\* -------------------------------------------------------------------- C10
\* C10: when every category has a candidate but both optimizers return no
\* selection, the assembly reports the 'assembly produced nothing' error and
\* never the 'No Candidates Found' error.
C10_EmptyAssemblyIsCriticalError ==
    (pc = "selected" /\ NumCategories >= 1 /\ AllCategoriesNonEmpty
       /\ feasible_outfit = <<>> /\ best_full_outfit = <<>>)
        => /\ final_result.error = CriticalAssemblyError.error
           /\ final_result.error # NoCandidatesFound.error

\* -------------------------------------------------------------------- C11
\* C11: select_final_outfit_and_metrics never returns a success result
\* (status_code 200) whose outfit list is empty; an empty presented
\* selection becomes an error result.
C11_SuccessIsNeverEmpty ==
    (pc = "selected" /\ final_result.status_code = 200)
        => /\ final_result.outfit # <<>>
           /\ final_result.error = "none"

\* The guard has acted: the selection to present was empty (the feasible
\* outfit of a plan without categories covers all of its zero categories)
\* and the result is the error of lines 250-254.
C11_Witness ==
    /\ pc = "selected"
    /\ IsFullCase(Len(feasible_outfit), NumCategories)
    /\ feasible_outfit = <<>>
    /\ final_result = CriticalAssemblyError

\* -------------------------------------------------------------------- C17
\* The candidate the stated rule picks in category i: maximum quality,
\* then lowest price, then first enumerated.
AllQualitiesPositive ==
    \A i \in 1..Len(all_candidates) :
        \A j \in 1..Len(all_candidates[i]) : all_candidates[i][j].similarity > 0

BestOfCategory(i) ==
    LET cands == all_candidates[i]
        top == Max({cands[j].similarity : j \in 1..Len(cands)})
        tops == {j \in 1..Len(cands) : cands[j].similarity = top}
        low == Min({cands[j].price : j \in tops})
    IN cands[Min({j \in tops : cands[j].price = low})]

\* C17: in the full outfit, each category's item is the candidate of
\* maximum quality in that category, the lowest-priced one when several
\* share that quality, and the first enumerated among equal prices (stated
\* here for matrices whose qualities are all positive).
C17_FullPicksBestThenCheapest ==
    (Assembled /\ AllCategoriesNonEmpty /\ AllQualitiesPositive)
        => /\ Len(best_full_outfit) = NumCategories
           /\ \A i \in 1..NumCategories : best_full_outfit[i].id = BestOfCategory(i).id

\* -------------------------------------------------------------------- C18
\* The lowest total cost of a within-budget selection of maximum quality.
LowestCostOfBest(matrix, limit) ==
    LET within == {s \in Selections(matrix) : SelectionCost(matrix, s) <= limit}
        best == BestQualityWithin(matrix, limit)
    IN Min({SelectionCost(matrix, s) : s \in {t \in within : SelectionQuality(matrix, t) = best}})

\* C18: when several within-budget selections reach the maximum total
\* quality, the feasible outfit returned costs the least among them.
C18_FeasibleIsCheapestOfBest ==
    (Assembled /\ AllCategoriesNonEmpty /\ budget # NoBudget)
        => TotalCost(feasible_outfit) = LowestCostOfBest(all_candidates, Cents(budget))

\* -------------------------------------------------------------------- C19
\* C19: whenever the feasible outfit returned by get_outfit holds no item,
\* its cost is 0 and its quality is 0: the remaining budget returned is the
\* whole budget, and the call returns normally.
C19_EmptyFeasibleCostsNothing ==
    (Assembled /\ budget # NoBudget /\ feasible_outfit = <<>>)
        => /\ remaining_budget = Cents(budget)
           /\ FeasibleRun(all_candidates, Cents(budget)).best_cost_cents = 0
           /\ FeasibleRun(all_candidates, Cents(budget)).best_similarity = 0

\* ------------------------------------- vocabulary of the refinement claims
\* The option's matrix is built (locks placed, retrieval done).
MatrixBuilt == pc \in {"start", "assembled", "selected", "raised"}

\* The previous item the entry at idx is locked to, when there is one.
HasPrevious(idx) == matching_previous(parsed_item_list[idx].category, last_outfit) # {}

PreviousOf(idx) ==
    last_outfit[Min(matching_previous(parsed_item_list[idx].category, last_outfit))]

\* No previous item carries a stored quality.
NoStoredQuality == \A k \in 1..Len(last_outfit) : last_outfit[k].similarity = <<>>

\* -------------------------------------------------------------------- C12
\* C12: in a refinement turn with an empty changed set and a non-empty
\* previous outfit, every plan category for which the previous outfit holds
\* an item appears in the presented outfit with that previous item's id,
\* for every finite budget and whatever the other categories receive
\* (stated here for previous items stored without a quality, so that the
\* pseudo-candidate's quality is 1.0).
C12_LockedItemsArePresented ==
    (/\ pc = "selected"
     /\ final_result.status_code = 200
     /\ changed_categories = <<>>
     /\ last_outfit # <<>>
     /\ NoStoredQuality
     /\ budget # NoBudget)
        => \A idx \in 1..Len(parsed_item_list) :
              HasPrevious(idx) => PreviousOf(idx).id \in OutfitIds(final_result.outfit)

\* -------------------------------------------------------------------- C13
\* The plan of the option as parse_outfit_plan returned it.
NewPlan == outfits_list[1].entries

Planned == pc \in {"search", "start"} /\ ~outfits_list[1].message

\* The previous items to carry over: stored under a category that the new
\* plan does not name and the changed set does not hold, by normalized name.
MustCarryOver(k) ==
    /\ last_outfit[k].main_category # <<>>
    /\ \A n \in 1..Len(NewPlan) :
          normalize(NewPlan[n].category) # normalize(last_outfit[k].main_category)
    /\ \A n \in 1..Len(changed_categories) :
          normalize(changed_categories[n]) # normalize(last_outfit[k].main_category)

\* The cell at idx holds one pseudo-candidate made from a previous item.
LockedTo(idx, prev_item) ==
    /\ Len(all_candidates[idx]) = 1
    /\ all_candidates[idx][1].id = prev_item.id
    /\ all_candidates[idx][1].price = prev_item.price[1]
    /\ idx \notin DOMAIN unfilled
    /\ \A j \in 1..Len(indices_to_search) : indices_to_search[j] # idx

\* C13: in a refinement turn, for every category that is in the previous
\* outfit, absent from the new plan by normalized name and not in the
\* changed set, a carry-over request for that category is added to the
\* plan, after the plan's own entries, and the matrix holds that category
\* locked to the (first) previous item stored under it.
C13_CarryOver ==
    Planned =>
        /\ SubSeq(parsed_item_list, 1, Len(NewPlan)) = NewPlan
        /\ Len(all_candidates) = Len(parsed_item_list)
        /\ \A k \in 1..Len(last_outfit) :
              MustCarryOver(k) =>
                 \E idx \in (Len(NewPlan) + 1)..Len(parsed_item_list) :
                    /\ parsed_item_list[idx].category = last_outfit[k].main_category
                    /\ parsed_item_list[idx].carry_over
                    /\ LockedTo(idx, PreviousOf(idx))
                    /\ normalize(PreviousOf(idx).main_category)
                          = normalize(last_outfit[k].main_category)
                    /\ (Cardinality(matching_previous(last_outfit[k].main_category,
                                                      last_outfit)) = 1
                           => PreviousOf(idx) = last_outfit[k])

\* Two previous items of different categories, both carried over into a
\* plan that names neither.
C13_Witness ==
    /\ Planned
    /\ Len(last_outfit) = 2
    /\ MustCarryOver(1) /\ MustCarryOver(2)
    /\ normalize(last_outfit[1].main_category) # normalize(last_outfit[2].main_category)
    /\ Len(parsed_item_list) = Len(NewPlan) + 2
    /\ LockedTo(Len(NewPlan) + 1, last_outfit[1])
    /\ LockedTo(Len(NewPlan) + 2, last_outfit[2])

\* -------------------------------------------------------------------- C14
\* The matrix indices whose cell is locked, before retrieval fills the rest.
LockedIndices == {idx \in 1..Len(parsed_item_list) : idx \notin DOMAIN unfilled}

Forwarded == {indices_to_search[j] : j \in 1..Len(indices_to_search)}

\* C14: the batch forwarded to retrieval holds exactly the plan entries
\* that are not locked, in plan order, and no locked entry is searched;
\* without a previous outfit every requested category is forwarded; for
\* previous outfit {top: A, bottom: B, shoes: C}, changed set {shoes} and a
\* plan of shoes only, top is locked to A, bottom to B and only shoes is
\* forwarded.
C14_OnlyUnlockedForwarded ==
    (pc = "search" /\ ~outfits_list[1].message) =>
        /\ \A j, k \in 1..Len(indices_to_search) :
              j < k => indices_to_search[j] < indices_to_search[k]
        /\ Forwarded \subseteq 1..Len(parsed_item_list)
        /\ \A idx \in 1..Len(parsed_item_list) :
              /\ idx \in Forwarded <=> all_candidates[idx] = <<>>
              /\ idx \in Forwarded <=> idx \notin LockedIndices
              /\ idx \in LockedIndices <=>
                    (HasPrevious(idx) /\
                     \A n \in 1..Len(changed_categories) :
                        normalize(changed_categories[n])
                            # normalize(parsed_item_list[idx].category))
              /\ idx \in LockedIndices => LockedTo(idx, PreviousOf(idx))
        /\ (last_outfit = <<>> =>
              /\ parsed_item_list = NewPlan
              /\ indices_to_search = [j \in 1..Len(NewPlan) |-> j])
        /\ ((last_outfit = ScenarioPreviousOutfit /\ changed_categories = <<Shoes>>
               /\ outfits_list = <<ScenarioPlan>>) =>
              /\ [idx \in 1..3 |-> parsed_item_list[idx].category] = <<Shoes, Top, Bottom>>
              /\ indices_to_search = <<1>>
              /\ LockedTo(2, ScenarioPreviousOutfit[1])
              /\ LockedTo(3, ScenarioPreviousOutfit[2]))

\* The scenario, after locking: shoes is the only entry to search.
C14_Witness ==
    /\ pc = "search"
    /\ last_outfit = ScenarioPreviousOutfit
    /\ changed_categories = <<Shoes>>
    /\ indices_to_search = <<1>>
    /\ Len(parsed_item_list) = 3
    /\ LockedIndices = {2, 3}

\* -------------------------------------------------------------------- C15
\* Retrieval failed for the option being processed: a searched cell holds
\* the error marker's dict or is still the placeholder.
RetrievalFailed == DOMAIN unfilled # {} /\ pc \notin {"plan", "search"}

\* C15: if retrieval reports a failure for a forwarded category, no outfit
\* is produced for that option: get_outfit raises TypeError on the cell
\* without candidates, nothing is collected or answered with status 200,
\* and the optimizers only ever return from a matrix whose every cell is a
\* non-empty candidate list.
C15_NoOutfitAfterRetrievalFailure ==
    /\ RetrievalFailed =>
          /\ pc \in {"start", "raised", "failed"}
          /\ pc # "start" => raised = "TypeError"
          /\ response.status_code # 200
    /\ Assembled =>
          /\ unfilled = <<>>
          /\ \A idx \in 1..Len(all_candidates) : all_candidates[idx] # <<>>

\* The error marker reached get_outfit under a finite budget, next to a
\* locked cell, and the call raised.
C15_Witness ==
    /\ pc = "raised"
    /\ budget # NoBudget
    /\ \E idx \in DOMAIN unfilled : unfilled[idx] = "ErrorMarker"
    /\ \E idx \in 1..Len(all_candidates) : all_candidates[idx] # <<>>
    /\ raised = "TypeError"

\* -------------------------------------------------------------------- C16
\* C16: the options of a turn are independent: when the assembly of one
\* option fails, only that option is abandoned, and every other option of
\* the turn that assembled successfully is returned in the turn's response.
C16_OtherOptionsStillReturned ==
    pc \in {"done", "failed"} =>
        \A n \in 1..Len(final_outfits_results) :
            \E m \in 1..Len(response.outfits) :
                response.outfits[m] = final_outfits_results[n]

\* -------------------------------------------------------------------- C20
\* C20: a locked category's candidate list is exactly one pseudo-candidate
\* with the previous item's id, price and stored fields and with quality
\* 1.0, whatever quality is stored with the previous item.
C20_LockedQualityIsOne ==
    Planned =>
        \A idx \in 1..Len(parsed_item_list) :
            (idx \notin Forwarded) =>
                /\ Len(all_candidates[idx]) = 1
                /\ all_candidates[idx][1].id = PreviousOf(idx).id
                /\ all_candidates[idx][1].price = PreviousOf(idx).price[1]
                /\ all_candidates[idx][1].main_category = PreviousOf(idx).main_category
                /\ all_candidates[idx][1].similarity = SimOne

\* -------------------------------------------------------------------- C28
\* C28: in every success result of select_final_outfit_and_metrics for a
\* finite budget, the reported cost is the sum of the prices of the
\* presented items, in cents, and cost plus remaining budget is the budget.
C28_CostIsSumOfPrices ==
    (pc = "selected" /\ budget # NoBudget /\ final_result.status_code = 200)
        => /\ final_result.cost = TotalCost(final_result.outfit)
           /\ final_result.cost + final_result.remaining_budget = Cents(budget)

\* A success that presents two items, one of them of quality 0, and leaves
\* part of the budget.
C28_Witness ==
    /\ pc = "selected"
    /\ budget # NoBudget
    /\ final_result.status_code = 200
    /\ Len(final_result.outfit) = 2
    /\ \E n \in 1..2 : final_result.outfit[n].similarity = 0 /\ final_result.outfit[n].price > 0
    /\ final_result.remaining_budget > 0

\* C29: in the step that builds the response of the handler, when at least
\* one assembled option has a non-negative remaining budget the returned
\* options are exactly the assembled options with a non-negative remaining
\* budget, in order; when every assembled option is over budget all of them
\* are returned; the status is COMPLETED (200) exactly when at least one
\* option is returned, and otherwise the response is the Error result 500.
NotOverBudget(result) == result.remaining_budget >= 0

C29_BudgetFilter ==
    [][(pc = "respond" /\ pc' = "done") =>
         LET assembled == final_outfits_results
             returned == response'.outfits
         IN /\ (\E n \in 1..Len(assembled) : NotOverBudget(assembled[n]))
                  => /\ \A m \in 1..Len(returned) : NotOverBudget(returned[m])
                     /\ returned = SelectSeq(assembled, NotOverBudget)
            /\ (\A n \in 1..Len(assembled) : ~NotOverBudget(assembled[n]))
                  => returned = assembled
            /\ (response'.status = "COMPLETED") <=> (returned # <<>>)
            /\ returned # <<>> => response'.status_code = 200
            /\ returned = <<>> => response' = NoValidOutfits]_vars

C29_Witness ==
    /\ pc = "done" /\ response.status = "COMPLETED"
    /\ Len(outfits_list) = 2 /\ Len(response.outfits) = 1
    /\ NotOverBudget(response.outfits[1])
    /\ final_result.status_code = 200 /\ ~NotOverBudget(final_result)

\* -------------------------------------------------------------------- C21
\* The names of the changed set, normalized.
ChangedNames == {normalize(changed_categories[n]) : n \in 1..Len(changed_categories)}

\* The cell at idx holds a pseudo-candidate made from a previous item.
HoldsPreviousItem(idx) ==
    \E n \in 1..Len(all_candidates[idx]) : \E k \in 1..Len(last_outfit) :
        all_candidates[idx][n].id = last_outfit[k].id

\* C21: a category of the changed set is never locked. Where the new plan
\* names it, its entry is forwarded to retrieval and its cell holds no
\* previous item, even when the previous outfit holds an item of that
\* category; where the new plan does not name it, no entry of the plan after
\* the carry-over and so no cell of the matrix belongs to it.
C21_ChangedNeverLocked ==
    Planned =>
        \A idx \in 1..Len(parsed_item_list) :
            normalize(parsed_item_list[idx].category) \in ChangedNames
                => /\ idx <= Len(NewPlan)
                   /\ ~parsed_item_list[idx].carry_over
                   /\ idx \in Forwarded
                   /\ ~HoldsPreviousItem(idx)
                   /\ (pc = "search" => all_candidates[idx] = <<>>)

\* The changed category is in the previous outfit under another spelling
\* and in the new plan: its entry was forwarded and retrieval filled it.
C21_Witness ==
    /\ Planned /\ pc = "start"
    /\ Len(changed_categories) = 1 /\ Len(parsed_item_list) = 1
    /\ changed_categories[1] # parsed_item_list[1].category
    /\ normalize(changed_categories[1]) = normalize(parsed_item_list[1].category)
    /\ HasPrevious(1)
    /\ indices_to_search = <<1>>
    /\ all_candidates[1] # <<>>

\* -------------------------------------------------------------------- C22
\* The cell at idx holds the candidates of a returned list, in its order.
HoldsList(idx, list) ==
    /\ Len(all_candidates[idx]) = Len(list)
    /\ \A n \in 1..Len(list) :
          /\ all_candidates[idx][n].price = list[n].price
          /\ all_candidates[idx][n].similarity = list[n].similarity

\* Retrieval answered the option's batch with one list per forwarded entry.
Merged == Planned /\ pc = "start" /\ ~search_results.error

\* C22: when retrieval returns one list per forwarded entry, the j-th list
\* is in the matrix cell of the j-th forwarded plan entry, every cell that
\* was not forwarded still holds the single pseudo-candidate of its
\* previous item, and the matrix is as long as the plan, whose entries are
\* the original ones followed by the carry-overs.
C22_MergePreservesPositions ==
    Merged =>
        /\ Len(all_candidates) = Len(parsed_item_list)
        /\ SubSeq(parsed_item_list, 1, Len(NewPlan)) = NewPlan
        /\ \A idx \in (Len(NewPlan) + 1)..Len(parsed_item_list) :
              parsed_item_list[idx].carry_over
        /\ Len(search_results.lists) = Len(indices_to_search)
        /\ \A j \in 1..Len(indices_to_search) :
              HoldsList(indices_to_search[j], search_results.lists[j])
        /\ \A idx \in 1..Len(parsed_item_list) :
              idx \notin Forwarded =>
                 /\ HasPrevious(idx)
                 /\ Len(all_candidates[idx]) = 1
                 /\ all_candidates[idx][1].id = PreviousOf(idx).id
                 /\ all_candidates[idx][1].price = PreviousOf(idx).price[1]
                 /\ all_candidates[idx][1].similarity
                       = Get(PreviousOf(idx).similarity, SimOne)

\* A locked entry before a forwarded one: the only returned list belongs
\* in the second cell, and the first cell keeps the previous item.
C22_Witness ==
    /\ Merged
    /\ Len(parsed_item_list) = 2
    /\ indices_to_search = <<2>>
    /\ Len(search_results.lists) = 1
    /\ HoldsList(2, search_results.lists[1])
    /\ all_candidates[1][1].id = PreviousOf(1).id

\* -------------------------------------------------------------------- C26
\* C26: in the matrix handed to the optimizers every normalized category
\* name appears at most once, for every plan of parse_outfit_plan and every
\* previous outfit, after carry-over and locking, and so no previous item
\* is placed in two cells.
C26_CategoriesAppearOnce ==
    (Planned /\ pc = "start") =>
        \A i, j \in 1..Len(parsed_item_list) :
            i < j =>
               /\ normalize(parsed_item_list[i].category)
                     # normalize(parsed_item_list[j].category)
               /\ \A n \in 1..Len(all_candidates[i]) : \A m \in 1..Len(all_candidates[j]) :
                     all_candidates[i][n].id # all_candidates[j][m].id

\* -------------------------------------------------------------------- C30
\* Two names that differ only in letter case, surrounding blanks or one
\* trailing "s".
SameButForSpelling(a, b) ==
    LET x == strip(lowercase(a))
        y == strip(lowercase(b))
    IN x = y \/ x = Append(y, "s") \/ y = Append(x, "s")

\* C30: a previous item stored under one spelling of a category locks the
\* plan entry written in another spelling that differs only in case,
\* surrounding blanks or one trailing "s" (the category not being changed):
\* the entry is not forwarded, its cell holds the previous item, and no
\* carry-over entry is added for the item.
C30_SpellingsAreOneCategory ==
    Planned =>
        \A k \in 1..Len(last_outfit) : \A idx \in 1..Len(NewPlan) :
            (/\ last_outfit[k].main_category # <<>>
             /\ SameButForSpelling(last_outfit[k].main_category, NewPlan[idx].category)
             /\ \A n \in 1..Len(changed_categories) :
                   ~SameButForSpelling(changed_categories[n], NewPlan[idx].category))
                => /\ idx \notin Forwarded
                   /\ HoldsPreviousItem(idx)
                   /\ \A m \in (Len(NewPlan) + 1)..Len(parsed_item_list) :
                         parsed_item_list[m].category # last_outfit[k].main_category

\* -------------------------------------------------------------------- C25
\* Every message of a history was written in the conversation.
HistoryOf(history, c) == \A n \in 1..Len(history) : history[n].conv = c

\* C25: under every interleaving of requests on distinct conversations,
\* evictions included, a request in flight keeps the context of its own
\* conversation: the entry it found in the cache is not removed before it
\* reads it, no request ends with the KeyError of a removed entry, and the
\* history a request works on and the history cached under a key hold the
\* messages of that conversation only.
C25_InFlightTurnKeepsItsContext ==
    /\ \A t \in Threads :
          /\ requests[t].at = "cached" => requests[t].conv_id \in CachedKeys(cache)
          /\ requests[t].exception # "KeyError"
          /\ HistoryOf(requests[t].chat_history, requests[t].conv_id)
    /\ \A n \in 1..Len(cache) : HistoryOf(cache[n].value, cache[n].key)

\* -------------------------------------------------------------------- C27
\* C27: when no request is in flight on a conversation, whether its last
\* request returned 200 or an error, the cache holds no entry for it, and
\* so the history a request hands to the handler is the one loaded from
\* the database.
C27_FinishedConversationIsNotCached ==
    /\ \A c \in Conversations : c \notin InFlight => c \notin CachedKeys(cache)
    /\ \A t \in Threads :
          requests[t].at = "handler"
              => requests[t].chat_history = load_messages(requests[t].conv_id)

\* -------------------------------------------------------------------- C23
\* The last model message of the history that carries an outfit, 0 when
\* there is none.
LastOutfitShown ==
    LET showing == {n \in 1..Len(chat_history) :
                       chat_history[n].role = "model" /\ chat_history[n].outfits # <<>>}
    IN IF showing = {} THEN 0 ELSE Max(showing)

\* The model message that carries the selected id, 0 when there is none.
SelectedMessage ==
    LET selected == {n \in 1..Len(chat_history) :
                        /\ chat_history[n].role = "model"
                        /\ chat_history[n].message_id # <<>>
                        /\ chat_history[n].message_id[1].text = selected_message_id[1].text}
    IN IF selected = {} THEN 0 ELSE Max(selected)

\* C23: the refinement context of a turn holds the items of the last outfit
\* shown: of the selected model message when a message id is selected, and
\* otherwise of the most recent model message that carries an outfit, a
\* later model message without outfit notwithstanding; in both cases the
\* option at the selected index, 0 by default.
C23_ContextIsLastOutfitShown ==
    pc = "dialogue" =>
        LET n == IF selected_message_id # <<>> THEN SelectedMessage ELSE LastOutfitShown
            index == Get(selected_outfit_index, 0)
        IN (n # 0 /\ index < Len(chat_history[n].outfits))
              => target_outfit_items = chat_history[n].outfits[index + 1].outfit

\* -------------------------------------------------------------------- C24
\* The dialogue collaborator marks a category as changed: a modification
\* of its output replaces or removes it.
MarkedChanged(category) ==
    \E n \in 1..Len(dialogue.modifications) :
        /\ dialogue.modifications[n].action \in {"REPLACE", "REMOVE"}
        /\ normalize(dialogue.modifications[n].category) = normalize(category)

\* C24: no lock is sticky: an entry whose category the previous turn locked
\* and the collaborator's output for this turn marks as changed is not
\* locked in this turn but forwarded to retrieval.
C24_NoStickyLock ==
    (pc = "search" /\ turn > 1) =>
        \A idx \in 1..Len(parsed_item_list) :
            (/\ normalize(parsed_item_list[idx].category) \in locked_before
             /\ MarkedChanged(parsed_item_list[idx].category))
                => /\ idx \in Forwarded
                   /\ all_candidates[idx] = <<>>

====
